---- MODULE Spec2Model ----
(***************************************************************************)
(* Model of create_student_pathways_dataset.py: the batch pipeline run by  *)
(* main() (load, create_pathways_dataset, enhance_dataset,                 *)
(* select_final_columns, save_dataset, generate_summary_stats) over three  *)
(* input tables.                                                           *)
(*                                                                         *)
(* A table (a pandas DataFrame) is a record                                *)
(*     [cols |-> set of column names,                                      *)
(*      rows |-> sequence of rows, each a function from cols to values,    *)
(*      object_cols |-> the columns that hold Python objects (None)        *)
(*                      instead of float64 NaN].                           *)
(* Integer-valued cells use NaN as their missing marker, text-valued cells *)
(* use None.  Scores are held in hundredths (6.0 is 600).  The join keys   *)
(* of the input rows (student id, school code) are never missing.          *)
(* A merge keeps the order of its left frame, as pandas documents.         *)
(***************************************************************************)
EXTENDS Integers, Sequences, FiniteSets, TLC

\* ------------------------------------------------------------------ bounds
\* Total number of rows over the three input files.
MaxRows == 4
\* No single input file has more than half of them (rounded down).
MaxPerFile == MaxRows \div 2

\* ------------------------------------------------------------------ values
NaN == 0 - 1
None == "None"

\* Value domains the input rows are drawn from.  The directory lists one
\* school code, the graduates attend that school or one the directory lacks.
MRUNs == {1, 2}
StudentRBDs == {1, 2}
SchoolRBDs == {1}
StudentDepe == {NaN, 1}
SchoolDepe == {2}
RuralCodes == {0, 1, 2}
GenderCodes == {1, 3}
SchoolNames == {"A"}
\* Raw NEM cells as read from the file: character sequences.
RawNEMs == {<<"6", ",", "0">>, <<"a", "b", "c">>}

\* Columns whose cells are text (their missing marker is None).
TextCols == {"NOM_RBD", "location_type", "nem_category", "gender_name"}

\* An empty raw cell is the empty character sequence.
NullOf(col) ==
    IF col \in TextCols THEN None ELSE IF col = "NEM" THEN <<>> ELSE NaN

EmptyTable == [cols |-> {}, rows |-> <<>>, object_cols |-> {}]

Range(s) == {s[i] : i \in DOMAIN s}

\* ------------------------------------------------- convert_chilean_decimal
Digits == <<"0", "1", "2", "3", "4", "5", "6", "7", "8", "9">>

IsDigit(c) == \E i \in DOMAIN Digits : Digits[i] = c

DigitVal(c) == (CHOOSE i \in DOMAIN Digits : Digits[i] = c) - 1

\* str(value).replace(',', '.')
ReplaceComma(s) == [i \in DOMAIN s |-> IF s[i] = "," THEN "." ELSE s[i]]

\* Position of the first "." of s, or Len(s) + 1 when there is none.
DotPos(s) ==
    IF \E i \in DOMAIN s : s[i] = "."
    THEN CHOOSE i \in DOMAIN s : s[i] = "." /\ \A j \in 1..(i - 1) : s[j] # "."
    ELSE Len(s) + 1

\* float() accepts (of the unsigned, exponent-free forms) digits with at
\* most one point and at least one digit.
FloatParses(s) ==
    /\ \A i \in DOMAIN s : IsDigit(s[i]) \/ s[i] = "."
    /\ \E i \in DOMAIN s : IsDigit(s[i])
    /\ \A i, j \in DOMAIN s : (s[i] = "." /\ s[j] = ".") => i = j

RECURSIVE DigitsValue(_)
DigitsValue(s) ==
    IF s = <<>> THEN 0
    ELSE 10 * DigitsValue(SubSeq(s, 1, Len(s) - 1)) + DigitVal(s[Len(s)])

\* The parsed value in hundredths (fractions of up to two digits).
FloatHundredths(s) ==
    LET p == DotPos(s)
        whole == SubSeq(s, 1, p - 1)
        frac == SubSeq(s, p + 1, Len(s))
    IN  100 * DigitsValue(whole)
        + (IF Len(frac) = 0 THEN 0
           ELSE IF Len(frac) = 1 THEN 10 * DigitsValue(frac)
           ELSE DigitsValue(SubSeq(frac, 1, 2)))

\* A missing cell or a cell float() rejects gives None (here NaN, the
\* column's dtype records whether it is held as None or as float NaN).
convert_chilean_decimal(value) ==
    IF value = <<>> THEN NaN
    ELSE IF FloatParses(ReplaceComma(value)) THEN FloatHundredths(ReplaceComma(value))
    ELSE NaN

\* ------------------------------------------------------------ input files
RECURSIVE SeqsUpTo(_, _)
SeqsUpTo(S, n) ==
    IF n = 0 THEN {<<>>}
    ELSE LET shorter == SeqsUpTo(S, n - 1)
         IN  shorter \cup {Append(s, e) : s \in {t \in shorter : Len(t) = n - 1}, e \in S}

\* The value domain of each column of each input file.
ColDomain(file, col) ==
    CASE file = "students" /\ col = "MRUN" -> MRUNs
      [] file = "students" /\ col = "RBD" -> StudentRBDs
      [] file = "students" /\ col = "COD_DEPE" -> StudentDepe
      [] file = "students" /\ col = "NEM" -> RawNEMs
      [] file = "schools" /\ col = "RBD" -> SchoolRBDs
      [] file = "schools" /\ col = "NOM_RBD" -> SchoolNames
      [] file = "schools" /\ col = "COD_DEPE" -> SchoolDepe
      [] file = "schools" /\ col = "RURAL_RBD" -> RuralCodes
      [] file = "he" /\ col = "mrun" -> MRUNs
      [] file = "he" /\ col = "gen_alu" -> GenderCodes

\* Every row of the file over the columns cols.
RECURSIVE RowsOver(_, _)
RowsOver(file, cols) ==
    IF cols = {} THEN {<<>>}
    ELSE LET c == CHOOSE x \in cols : TRUE
         IN  {r @@ (c :> v) : r \in RowsOver(file, cols \ {c}), v \in ColDomain(file, c)}

\* The headers of the input files: a file lacks at most one of its fields.
LackingAtMostOne(cols) == {cols} \cup {cols \ {c} : c \in cols}

\* Graduate file: NEM is read by the loader, the others by the join.
StudentHeaders == {{"NEM"} \cup h : h \in LackingAtMostOne({"MRUN", "RBD", "COD_DEPE"})}

SchoolHeaders == {{"NOM_RBD"} \cup h : h \in LackingAtMostOne({"RBD", "COD_DEPE", "RURAL_RBD"})}

\* The Enrollment file is read with usecols: its header has the allow-list.
EnrollmentHeaders == {{"mrun", "gen_alu"}}

FilesOver(file, headers) ==
    UNION {{[cols |-> h, rows |-> rs, object_cols |-> {}] :
              rs \in SeqsUpTo(RowsOver(file, h), MaxPerFile)} : h \in headers}

\* --------------------------------------------------- load_and_clean_data
\* students_df['NEM_numeric'] = students_df['NEM'].apply(convert_chilean_decimal)
\* The new column is float64 as soon as one cell parses; when no cell does,
\* apply() returns only None and the column keeps dtype object.
AddNEMNumeric(t) ==
    [cols |-> t.cols \cup {"NEM_numeric"},
     rows |-> [i \in DOMAIN t.rows |->
                 t.rows[i] @@ ("NEM_numeric" :> convert_chilean_decimal(t.rows[i]["NEM"]))],
     object_cols |->
        IF \A i \in DOMAIN t.rows : convert_chilean_decimal(t.rows[i]["NEM"]) = NaN
        THEN {"NEM_numeric"} ELSE {}]

\* ------------------------------------------------------------------ merge
RECURSIVE Flatten(_)
Flatten(ss) == IF ss = <<>> THEN <<>> ELSE Head(ss) \o Flatten(Tail(ss))

\* The non-key columns both frames have: merge suffixes them _x and _y.
Overlap(left, right, left_on, right_on) ==
    (left.cols \cap right.cols) \ (IF left_on = right_on THEN {left_on} ELSE {})

LeftName(c, overlap) == IF c \in overlap THEN c \o "_x" ELSE c

RightName(c, overlap) == IF c \in overlap THEN c \o "_y" ELSE c

\* The right frame's columns that appear in the result (a key column named
\* alike on both sides appears once, from the left).
RightKept(right, left_on, right_on) ==
    right.cols \ (IF left_on = right_on THEN {right_on} ELSE {})

MergedCols(left, right, left_on, right_on) ==
    LET ov == Overlap(left, right, left_on, right_on)
    IN  {LeftName(c, ov) : c \in left.cols}
        \cup {RightName(c, ov) : c \in RightKept(right, left_on, right_on)}

\* One result row from left row l and right row r.
JoinRow(left, right, left_on, right_on, l, r) ==
    LET ov == Overlap(left, right, left_on, right_on)
    IN  [c \in MergedCols(left, right, left_on, right_on) |->
            IF \E lc \in left.cols : LeftName(lc, ov) = c
            THEN l[CHOOSE lc \in left.cols : LeftName(lc, ov) = c]
            ELSE r[CHOOSE rc \in right.cols : RightName(rc, ov) = c]]

\* The right rows whose key equals that of left row l, in the right frame's order.
Matches(right, right_on, key) ==
    SelectSeq(right.rows, LAMBDA r : r[right_on] = key)

\* The rows a left row contributes: one per matching right row; with
\* how = "left" an unmatched left row is kept, its right columns missing.
RowsFor(left, right, left_on, right_on, how, l) ==
    LET ms == Matches(right, right_on, l[left_on])
        missing == [c \in right.cols |-> NullOf(c)]
    IN  IF ms = <<>>
        THEN IF how = "left"
             THEN <<JoinRow(left, right, left_on, right_on, l, missing)>>
             ELSE <<>>
        ELSE [j \in DOMAIN ms |-> JoinRow(left, right, left_on, right_on, l, ms[j])]

\* left.merge(right, left_on=..., right_on=..., how=...) for how in
\* {"left", "inner"}: the rows follow the order of the left frame.
Merge(left, right, left_on, right_on, how) ==
    [cols |-> MergedCols(left, right, left_on, right_on),
     rows |-> Flatten([i \in DOMAIN left.rows |->
                         RowsFor(left, right, left_on, right_on, how, left.rows[i])]),
     object_cols |->
        LET ov == Overlap(left, right, left_on, right_on)
        IN  {LeftName(c, ov) : c \in left.object_cols}
            \cup {RightName(c, ov) : c \in right.object_cols}]

\* merge raises KeyError when a key column is not in its frame.
MergeRaises(left, right, left_on, right_on) ==
    left_on \notin left.cols \/ right_on \notin right.cols

\* ------------------------------------------------ create_pathways_dataset
\* set(df[col].unique())
UniqueSet(df, col) == {df.rows[i][col] : i \in DOMAIN df.rows}

graduated_students(students) == UniqueSet(students, "MRUN")

enrolled_students(he) == UniqueSet(he, "mrun")

\* Mutant: the union where the code intersects.
pathway_students_union(students, he) ==
    graduated_students(students) \cup enrolled_students(he)

pathway_students(students, he) ==
    graduated_students(students) \cap enrolled_students(he)

\* The orders in which a set can be iterated.
Orders(S) == {o \in [1..Cardinality(S) -> S] : \A i, j \in DOMAIN o : o[i] = o[j] => i = j}

\* Series.isin(values): membership, whatever the order of values.
isin(v, values) == \E i \in DOMAIN values : values[i] = v

\* Mutant: the rows are emitted in the iteration order of the set.
FilterIsin_in_set_order(df, col, values) ==
    [df EXCEPT !.rows = Flatten([i \in DOMAIN values |->
                                   SelectSeq(df.rows, LAMBDA r : r[col] = values[i])])]

\* df[df[col].isin(values)]: the rows kept stay in the frame's order.
FilterIsin(df, col, values) ==
    [df EXCEPT !.rows = SelectSeq(df.rows, LAMBDA r : isin(r[col], values))]

pathway_graduates(students, order) == FilterIsin(students, "MRUN", order)

pathway_enrollments(he, order) == FilterIsin(he, "mrun", order)

school_columns_needed ==
    {"RBD", "NOM_RBD", "COD_REG_RBD", "NOM_REG_RBD_A", "COD_COM_RBD", "NOM_COM_RBD",
     "COD_DEPE", "RURAL_RBD"}

school_columns_available(schools) == school_columns_needed \cap schools.cols

\* schools_df[school_columns_available]
Project(df, cols) ==
    [cols |-> cols,
     rows |-> [i \in DOMAIN df.rows |-> [c \in cols |-> df.rows[i][c]]],
     object_cols |-> df.object_cols \cap cols]

\* Mutant: an inner join with the directory.
grad_school_merged_inner(schools, students, order) ==
    Merge(pathway_graduates(students, order),
          Project(schools, school_columns_available(schools)),
          "RBD", "RBD", "inner")

grad_school_merged(schools, students, order) ==
    Merge(pathway_graduates(students, order),
          Project(schools, school_columns_available(schools)),
          "RBD", "RBD", "left")

\* df[col] = values: one value per row.
AddColumn(df, col, values) ==
    [cols |-> df.cols \cup {col},
     rows |-> [i \in DOMAIN df.rows |->
                 [c \in df.cols \cup {col} |->
                    IF c = col THEN values[i] ELSE df.rows[i][c]]],
     object_cols |-> df.object_cols \ {col}]

\* df[col].map(f): the column's cells, each mapped.
Column(df, col) == [i \in DOMAIN df.rows |-> df.rows[i][col]]

\* Mutant: the school data version is preferred.
FixCodDepe_prefers_school(df) ==
    IF "COD_DEPE_y" \in df.cols
    THEN AddColumn(df, "COD_DEPE", Column(df, "COD_DEPE_y"))
    ELSE IF "COD_DEPE_x" \in df.cols
    THEN AddColumn(df, "COD_DEPE", Column(df, "COD_DEPE_x"))
    ELSE df

\* Mutant: a COD_DEPE column of missing values is created when no table has one.
FixCodDepe_always(df) ==
    IF "COD_DEPE_x" \in df.cols
    THEN AddColumn(df, "COD_DEPE", Column(df, "COD_DEPE_x"))
    ELSE IF "COD_DEPE_y" \in df.cols
    THEN AddColumn(df, "COD_DEPE", Column(df, "COD_DEPE_y"))
    ELSE IF "COD_DEPE" \in df.cols THEN df
    ELSE AddColumn(df, "COD_DEPE", [i \in DOMAIN df.rows |-> NaN])

\* Lines 124-130: COD_DEPE is taken from COD_DEPE_x (the student data) when
\* the merge suffixed it, else from COD_DEPE_y when only that one exists.
FixCodDepe(df) ==
    IF "COD_DEPE_x" \in df.cols
    THEN AddColumn(df, "COD_DEPE", Column(df, "COD_DEPE_x"))
    ELSE IF "COD_DEPE_y" \in df.cols
    THEN AddColumn(df, "COD_DEPE", Column(df, "COD_DEPE_y"))
    ELSE df

\* order is the iteration order of the set pathway_students.
create_pathways_dataset(schools, students, he, order) ==
    FixCodDepe(Merge(grad_school_merged(schools, students, order),
                     pathway_enrollments(he, order),
                     "MRUN", "mrun", "inner"))

\* The KeyErrors of create_pathways_dataset: students_df['MRUN'] (line 67),
\* and the key RBD of the first merge (lines 96-101).  he_df['mrun'] is
\* always there: the file is read with usecols.
CreateRaises(schools, students, he) ==
    \/ "MRUN" \notin students.cols
    \/ "mrun" \notin he.cols
    \/ MergeRaises(students, Project(schools, school_columns_available(schools)),
                   "RBD", "RBD")

\* -------------------------------------------------------- enhance_dataset
\* Series.map(mapping) with mapping {0: 'Urban', 1: 'Rural'}: a key the
\* mapping lacks (a missing cell too) gives a missing cell.
location_type(code) ==
    IF code = 0 THEN "Urban" ELSE IF code = 1 THEN "Rural" ELSE None

gender_name(code) ==
    IF code = 1 THEN "Male" ELSE IF code = 2 THEN "Female" ELSE None

\* bins=[0, 5.0, 5.5, 6.0, 6.5, 7.0], in hundredths.
bins == <<0, 500, 550, 600, 650, 700>>

labels == <<"< 5.0", "5.0-5.5", "5.5-6.0", "6.0-6.5", "6.5+">>

\* bins.searchsorted(x, side='left'): how many bin edges are below x.
searchsorted(x) == Cardinality({i \in DOMAIN bins : bins[i] < x})

\* pd.cut(..., right=True, include_lowest=True) of one float cell.
cut(x) ==
    LET ids == IF x = bins[1] THEN 1 ELSE searchsorted(x)
    IN  IF x = NaN \/ ids = 0 \/ ids = Len(bins) THEN None ELSE labels[ids]

\* pd.cut compares every cell with the bin edges; a column of dtype object
\* holding None has cells that do not compare with a float: TypeError.
EnhanceRaises(df) ==
    /\ "NEM_numeric" \in df.cols
    /\ "NEM_numeric" \in df.object_cols
    /\ df.rows # <<>>

\* Lines 145-151.
add_location_type(df) ==
    IF "RURAL_RBD" \in df.cols
    THEN AddColumn(df, "location_type",
                   [i \in DOMAIN df.rows |-> location_type(df.rows[i]["RURAL_RBD"])])
    ELSE AddColumn(df, "location_type", [i \in DOMAIN df.rows |-> "Unknown"])

\* Lines 159-170.
add_nem_category(df) ==
    IF "NEM_numeric" \in df.cols
    THEN AddColumn(df, "nem_category",
                   [i \in DOMAIN df.rows |-> cut(df.rows[i]["NEM_numeric"])])
    ELSE AddColumn(df, "nem_category", [i \in DOMAIN df.rows |-> "Unknown"])

\* Lines 172-179.
add_gender_name(df) ==
    IF "gen_alu" \in df.cols
    THEN AddColumn(df, "gender_name",
                   [i \in DOMAIN df.rows |-> gender_name(df.rows[i]["gen_alu"])])
    ELSE AddColumn(df, "gender_name", [i \in DOMAIN df.rows |-> "Unknown"])

enhance_dataset(df) == add_gender_name(add_nem_category(add_location_type(df)))

\* --------------------------------------------------- select_final_columns
\* The mapping internal name -> output name, in the order of the dict.
final_columns ==
    << <<"MRUN", "student_id">>, <<"gender_name", "student_gender">>,
       <<"AGNO_EGRESO", "graduation_year">>, <<"NEM_numeric", "nem_score">>,
       <<"PERCENTIL", "percentile">>, <<"nem_category", "nem_category">>,
       <<"RBD", "school_id">>, <<"NOM_RBD", "school_name">>,
       <<"COD_DEPE", "school_type">>, <<"location_type", "school_location_type">>,
       <<"COD_REG_RBD", "school_region_code">>, <<"NOM_REG_RBD_A", "school_region_name">>,
       <<"COD_COM_RBD", "school_comuna_code">>, <<"NOM_COM_RBD", "school_comuna_name">>,
       <<"cod_inst", "institution_code">>, <<"nomb_inst", "institution_name">>,
       <<"tipo_inst_1", "institution_type">>, <<"tipo_inst_2", "institution_subtype">>,
       <<"cod_sede", "campus_code">>, <<"nomb_sede", "campus_name">>,
       <<"region_sede", "campus_region">>, <<"comuna_sede", "campus_comuna">>,
       <<"cod_carrera", "career_code">>, <<"nomb_carrera", "career_name">>,
       <<"nivel_global", "education_level">>, <<"area_conocimiento", "knowledge_area">>,
       <<"area_carrera_generica", "career_generic_area">> >>

\* {k: v for k, v in final_columns.items() if k in df.columns}
available_columns(df) == SelectSeq(final_columns, LAMBDA kv : kv[1] \in df.cols)

\* df[list(available_columns.keys())].rename(columns=available_columns);
\* header is the order of the columns.
select_final_columns(df) ==
    LET av == available_columns(df)
        out == {av[i][2] : i \in DOMAIN av}
        internal(c) == av[CHOOSE j \in DOMAIN av : av[j][2] = c][1]
    IN  [cols |-> out,
         header |-> [i \in DOMAIN av |-> av[i][2]],
         rows |-> [i \in DOMAIN df.rows |-> [c \in out |-> df.rows[i][internal(c)]]]]

\* ------------------------------------------------------------ save_dataset
EmptyFinal == [cols |-> {}, header |-> <<>>, rows |-> <<>>]

NoFile == [exists |-> FALSE, header |-> <<>>, rows |-> <<>>]

\* df.to_csv(output_path, index=False): the header row, then the rows.
save_dataset(df) == [exists |-> TRUE, header |-> df.header, rows |-> df.rows]

\* ------------------------------------------------------------------- main
VARIABLES
    schools_file, students_file, he_file,  \* the three input files
    pc,            \* how far main() has got: the last step completed
    schools_df, students_df, he_df,        \* what load_and_clean_data returned
    order,         \* the iteration order of the set pathway_students
    pathways_df, enhanced_df, final_df,    \* the locals of main()
    csv,           \* the output file
    written,       \* this run of main() has written the output file
    error,         \* the exception main() re-raised, "none" before
    run,           \* "first" or "second" run on the same input files
    prev_csv       \* the output file as the first run left it

vars == <<schools_file, students_file, he_file, pc, schools_df, students_df, he_df,
          order, pathways_df, enhanced_df, final_df, csv, written, error, run, prev_csv>>

inputs == <<schools_file, students_file, he_file>>

\* Mutant: the file is written right after the load, before the join.
StepAfter_save_first(p) ==
    CASE p = "start" -> "load"
      [] p = "loaded" -> "save"
      [] p = "saved" -> "create"
      [] p = "created" -> "enhance"
      [] p = "enhanced" -> "select"
      [] p = "selected" -> "summary"
      [] OTHER -> "none"

\* The step main() runs next, by the last step it completed (lines 305-322).
StepAfter(p) ==
    CASE p = "start" -> "load"
      [] p = "loaded" -> "create"
      [] p = "created" -> "enhance"
      [] p = "enhanced" -> "select"
      [] p = "selected" -> "save"
      [] p = "saved" -> "summary"
      [] OTHER -> "none"

Init ==
    /\ schools_file \in FilesOver("schools", SchoolHeaders)
    /\ students_file \in FilesOver("students", StudentHeaders)
    /\ he_file \in FilesOver("he", EnrollmentHeaders)
    /\ Len(schools_file.rows) + Len(students_file.rows) + Len(he_file.rows) <= MaxRows
    /\ pc = "start"
    /\ schools_df = EmptyTable /\ students_df = EmptyTable /\ he_df = EmptyTable
    /\ order = <<>>
    /\ pathways_df = EmptyTable /\ enhanced_df = EmptyTable /\ final_df = EmptyFinal
    /\ csv = NoFile
    /\ written = FALSE
    /\ error = "none"
    /\ run = "first"
    /\ prev_csv = NoFile

\* except Exception as e: print(...); raise   (lines 329-331)
Raise(e) ==
    /\ pc' = "failed"
    /\ error' = e

\* load_and_clean_data() returns the three tables.
Load ==
    /\ StepAfter(pc) = "load"
    /\ schools_df' = schools_file
    /\ students_df' = AddNEMNumeric(students_file)
    /\ he_df' = he_file
    /\ pc' = "loaded"
    /\ UNCHANGED <<inputs, order, pathways_df, enhanced_df, final_df, csv, written,
                   error, run, prev_csv>>

\* pd.read_csv raises: a file is missing or cannot be decoded, or the
\* Enrollment file lacks a column of the allow-list.
LoadFails ==
    /\ StepAfter(pc) = "load"
    /\ Raise("LoadError")
    /\ UNCHANGED <<inputs, schools_df, students_df, he_df, order, pathways_df,
                   enhanced_df, final_df, csv, written, run, prev_csv>>

Create ==
    /\ StepAfter(pc) = "create"
    /\ ~CreateRaises(schools_df, students_df, he_df)
    /\ \E o \in Orders(pathway_students(students_df, he_df)) :
          /\ order' = o
          /\ pathways_df' = create_pathways_dataset(schools_df, students_df, he_df, o)
    /\ pc' = "created"
    /\ UNCHANGED <<inputs, schools_df, students_df, he_df, enhanced_df, final_df, csv,
                   written, error, run, prev_csv>>

CreateFails ==
    /\ StepAfter(pc) = "create"
    /\ CreateRaises(schools_df, students_df, he_df)
    /\ Raise("KeyError")
    /\ UNCHANGED <<inputs, schools_df, students_df, he_df, order, pathways_df,
                   enhanced_df, final_df, csv, written, run, prev_csv>>

\* enhance_dataset adds its columns to the frame it is given and returns it:
\* pathways_df and enhanced_df are the same frame.
Enhance ==
    /\ StepAfter(pc) = "enhance"
    /\ ~EnhanceRaises(pathways_df)
    /\ enhanced_df' = enhance_dataset(pathways_df)
    /\ pathways_df' = enhance_dataset(pathways_df)
    /\ order' = <<>>
    /\ pc' = "enhanced"
    /\ UNCHANGED <<inputs, schools_df, students_df, he_df, final_df, csv, written,
                   error, run, prev_csv>>

\* pd.cut raises; location_type has already been added to the frame.
EnhanceFails ==
    /\ StepAfter(pc) = "enhance"
    /\ EnhanceRaises(pathways_df)
    /\ pathways_df' = add_location_type(pathways_df)
    /\ order' = <<>>
    /\ Raise("TypeError")
    /\ UNCHANGED <<inputs, schools_df, students_df, he_df, enhanced_df, final_df, csv,
                   written, run, prev_csv>>

Select ==
    /\ StepAfter(pc) = "select"
    /\ final_df' = select_final_columns(enhanced_df)
    /\ pc' = "selected"
    /\ UNCHANGED <<inputs, schools_df, students_df, he_df, order, pathways_df,
                   enhanced_df, csv, written, error, run, prev_csv>>

Save ==
    /\ StepAfter(pc) = "save"
    /\ csv' = save_dataset(final_df)
    /\ written' = TRUE
    /\ pc' = "saved"
    /\ UNCHANGED <<inputs, schools_df, students_df, he_df, order, pathways_df,
                   enhanced_df, final_df, error, run, prev_csv>>

\* generate_summary_stats only prints; main() then returns final_df.
Summary ==
    /\ StepAfter(pc) = "summary"
    /\ pc' = "done"
    /\ UNCHANGED <<inputs, schools_df, students_df, he_df, order, pathways_df,
                   enhanced_df, final_df, csv, written, error, run, prev_csv>>

\* The script is run a second time on the same, unmodified input files.
Rerun ==
    /\ pc = "done"
    /\ run = "first"
    /\ run' = "second"
    /\ prev_csv' = csv
    /\ pc' = "start"
    /\ schools_df' = EmptyTable /\ students_df' = EmptyTable /\ he_df' = EmptyTable
    /\ pathways_df' = EmptyTable /\ enhanced_df' = EmptyTable /\ final_df' = EmptyFinal
    /\ written' = FALSE
    /\ UNCHANGED <<inputs, order, csv, error>>

Next ==
    \/ Load
    \/ LoadFails
    \/ Create
    \/ CreateFails
    \/ Enhance
    \/ EnhanceFails
    \/ Select
    \/ Save
    \/ Summary
    \/ Rerun

Spec == Init /\ [][Next]_vars

\* ================================================================= claims
\* The sets of section 4.2, read off the input files.
Graduated ==
    IF "MRUN" \in students_file.cols
    THEN {students_file.rows[i]["MRUN"] : i \in DOMAIN students_file.rows}
    ELSE {}

Enrolled == {he_file.rows[i]["mrun"] : i \in DOMAIN he_file.rows}

PathwaySet == Graduated \cap Enrolled

\* The join keys are in the files: create_pathways_dataset raises no KeyError.
KeysPresent ==
    /\ "MRUN" \in students_file.cols
    /\ "RBD" \in students_file.cols
    /\ "RBD" \in schools_file.cols

\* main() has the table create_pathways_dataset returned, not yet enhanced.
Created == pc = "created"

\* The post-filter Enrollment rows.
PathwayEnrollmentRows ==
    SelectSeq(he_file.rows, LAMBDA r : r["mrun"] \in PathwaySet)

\* C1: every row of the table create_pathways_dataset returns, of the
\* intermediate left join, and of the written output has a student id in
\* graduated \cap enrolled.
C1_RowsInPathway ==
    /\ Created =>
          /\ \A r \in Range(grad_school_merged(schools_df, students_df, order).rows) :
                r["MRUN"] \in PathwaySet
          /\ \A r \in Range(pathways_df.rows) : r["MRUN"] \in PathwaySet
    /\ csv.exists => \A r \in Range(csv.rows) : r["student_id"] \in PathwaySet

\* C1 witness: the join has produced rows while a student of one of the two
\* tables is outside the intersection.
C1_Witness ==
    /\ Created
    /\ pathways_df.rows # <<>>
    /\ (Graduated \cup Enrolled) \ PathwaySet # {}

\* C2 (as claimed): the table returned has exactly as many rows as the
\* post-filter Enrollment table.
C2_RowCountIsEnrollmentCount ==
    Created => Len(pathways_df.rows) = Len(PathwayEnrollmentRows)

\* C3 (as claimed): per row, a non-null Graduate value wins and a null
\* Graduate value falls back to the School Directory value of the row.
C3_PerRowFallback ==
    (Created /\ "COD_DEPE" \in pathways_df.cols) =>
        \A r \in Range(pathways_df.rows) :
            LET both == "COD_DEPE_x" \in pathways_df.cols
                g == IF both THEN r["COD_DEPE_x"]
                     ELSE IF "COD_DEPE" \in students_file.cols THEN r["COD_DEPE"]
                     ELSE NaN
                sc == IF both THEN r["COD_DEPE_y"]
                      ELSE IF "COD_DEPE" \in schools_file.cols THEN r["COD_DEPE"]
                      ELSE NaN
            IN  /\ g # NaN => r["COD_DEPE"] = g
                /\ (g = NaN /\ sc # NaN) => r["COD_DEPE"] = sc

\* The graduate rows an output row can come from.
GraduateRowsOf(r) ==
    {g \in Range(students_file.rows) :
        g["MRUN"] = r["MRUN"] /\ g["RBD"] = r["RBD"] /\ g["NEM"] = r["NEM"]}

\* The directory rows of the school of an output row.
SchoolRowsOf(r) == {sc \in Range(schools_file.rows) : sc["RBD"] = r["RBD"]}

\* C3 (amended): the choice is made per table.  When the Graduate table has
\* the column, every row carries the Graduate value, null included; when only
\* the School Directory has it, the row carries the value of its school, or
\* null when the directory lacks the school.
C3_PerTableChoice ==
    Created =>
        \A r \in Range(pathways_df.rows) :
            IF "COD_DEPE" \in students_file.cols
            THEN \E g \in GraduateRowsOf(r) : r["COD_DEPE"] = g["COD_DEPE"]
            ELSE IF "COD_DEPE" \in schools_file.cols
            THEN IF SchoolRowsOf(r) = {} THEN r["COD_DEPE"] = NaN
                 ELSE \E sc \in SchoolRowsOf(r) : r["COD_DEPE"] = sc["COD_DEPE"]
            ELSE "COD_DEPE" \notin pathways_df.cols

\* C3 witness: both tables have the column and a row has a null Graduate
\* value beside a School Directory value.
C3_Witness ==
    /\ Created
    /\ "COD_DEPE_x" \in pathways_df.cols
    /\ \E r \in Range(pathways_df.rows) :
          r["COD_DEPE_x"] = NaN /\ r["COD_DEPE_y"] # NaN /\ r["COD_DEPE"] = NaN

DepeAbsentFromBoth ==
    "COD_DEPE" \notin students_file.cols /\ "COD_DEPE" \notin schools_file.cols

\* C4 (as claimed): with the field absent from both tables, a written output
\* has the school_type column, null in every row.
C4_ColumnKeptAsNull ==
    (DepeAbsentFromBoth /\ csv.exists) =>
        /\ \E i \in DOMAIN csv.header : csv.header[i] = "school_type"
        /\ \A r \in Range(csv.rows) : r["school_type"] = NaN

\* C4 (amended): with the field absent from both tables, the join returns a
\* table without COD_DEPE, no step raises a KeyError for it, and a written
\* output has no school_type column.
C4_ColumnOmitted ==
    (DepeAbsentFromBoth /\ KeysPresent) =>
        /\ error # "KeyError"
        /\ pc \in {"created", "enhanced", "selected", "saved", "done"} =>
              "COD_DEPE" \notin pathways_df.cols
        /\ pc \in {"selected", "saved", "done"} => "school_type" \notin final_df.cols
        /\ csv.exists => \A i \in DOMAIN csv.header : csv.header[i] # "school_type"

\* C4 witness: such a run has written an output with rows.
C4_Witness ==
    /\ DepeAbsentFromBoth
    /\ written
    /\ csv.rows # <<>>

\* C5: every pathway student has a row in the table returned and in a
\* written output; a row whose school the directory lacks has null school
\* fields.
C5_EveryPathwayStudentKept ==
    /\ Created =>
          /\ \A m \in PathwaySet : \E r \in Range(pathways_df.rows) : r["MRUN"] = m
          /\ \A r \in Range(pathways_df.rows) :
                SchoolRowsOf(r) = {} =>
                    \A c \in schools_file.cols \cap {"NOM_RBD", "RURAL_RBD"} :
                        r[c] = NullOf(c)
    /\ written => \A m \in PathwaySet : \E r \in Range(csv.rows) : r["student_id"] = m

\* C5 witness: a pathway student whose school code the directory lacks is
\* in the table returned, the directory not being empty.
C5_Witness ==
    /\ Created
    /\ schools_file.rows # <<>>
    /\ \E r \in Range(pathways_df.rows) : SchoolRowsOf(r) = {} /\ r["NOM_RBD"] = None

\* C6 (as claimed): a null score gives a null category, never an error:
\* main() never fails in the bucketing.
C6_NullScoreNeverAnError == error # "TypeError"

\* C7 (as claimed): without the rural flag in the School Directory the join,
\* enrich, project and write steps do not abort, and every output row has
\* school_location_type "Unknown".
C7_NoRuralFlagCompletes ==
    ("RURAL_RBD" \notin schools_file.cols /\ KeysPresent) =>
        /\ error \in {"none", "LoadError"}
        /\ csv.exists => \A r \in Range(csv.rows) : r["school_location_type"] = "Unknown"

\* C8: a second run on the same input files leaves the same output file:
\* same header, same rows in the same order.
C8_SecondRunSameOutput ==
    (run = "second" /\ pc = "done") => csv = prev_csv

\* C8 witness: the second run has written rows of two pathway students.
C8_Witness ==
    /\ run = "second"
    /\ pc = "done"
    /\ Cardinality({csv.rows[i]["student_id"] : i \in DOMAIN csv.rows}) = 2

\* C9: a run that failed in the load or on a missing join key column has
\* raised the error and written nothing; the file is written only after the
\* load, join, enrich and project steps; a failed run is not retried.
C9_NoOutputOnFatalError ==
    /\ [](pc = "failed" => error # "none")
    /\ []((pc = "failed" /\ error \in {"LoadError", "KeyError"}) => ~written)
    /\ [](written => pc \in {"saved", "done"})
    /\ [][pc = "failed" => pc' = "failed"]_vars

\* C9 witness: a run has failed on a missing join key column.
C9_Witness ==
    /\ pc = "failed"
    /\ error = "KeyError"
    /\ ~written

\* C10 (as claimed): the left join with the directory has as many rows as
\* the filtered Graduate table.
C10_LeftJoinKeepsRowCount ==
    Created =>
        Len(grad_school_merged(schools_df, students_df, order).rows)
            = Len(pathway_graduates(students_df, order).rows)

====
